---- MODULE Spec2Model ----
(***************************************************************************)
(* Model of liris_fold_fabric_triangle.py: path discovery and date filter  *)
(* (_split_paths), episode assembly (_parse_example), the example          *)
(* generator (_generate_examples) and the parallel conversion driver that  *)
(* consumes it.                                                            *)
(***************************************************************************)
EXTENDS Integers, Sequences, FiniteSets, TLC

VARIABLES
    \* ---- discovery (_split_paths) ----
    initialDate,    \* INITIAL_DATE: None or a datetime <<Y, m, d, H, M, S>>
    finalDate,      \* FINAL_DATE: None or a datetime
    sessions,       \* directories under DATA_PATH, in the order crawler lists them
    h5Files,        \* directories p for which p + '/trajectory.h5' exists
    mp4Dirs,        \* directories p for which p + '/recordings/MP4' exists
    splitState,     \* "pending" | "returned" | "raised"
    train,          \* the 'train' list _split_paths returned
    \* ---- assembly (_parse_example / _generate_examples) ----
    filterNoOps,    \* FILTER_NO_OPS
    loaded,         \* what load_trajectory does for each path, by position in paths
    paths,          \* the argument of _generate_examples
    genIdx,         \* number of paths the generator has consumed
    yielded,        \* the values the generator has yielded, in order
    diag,           \* the diagnostics printed, in order
    \* ---- parallel conversion driver ----
    nWorkers,       \* worker count W
    maxInMemory,    \* buffer capacity M
    pending,        \* paths no worker has taken yet
    worker,         \* per worker: None, or the path it is converting
    buffer,         \* completed results held in memory
    sink            \* records delivered to the dataset sink, in order

vars == <<initialDate, finalDate, sessions, h5Files, mp4Dirs, splitState, train,
          filterNoOps, loaded, paths, genIdx, yielded, diag,
          nWorkers, maxInMemory, pending, worker, buffer, sink>>

splitVars == <<initialDate, finalDate, sessions, h5Files, mp4Dirs, splitState, train>>
parseVars == <<filterNoOps, loaded, paths, genIdx, yielded, diag>>
driverVars == <<nWorkers, maxInMemory, pending, worker, buffer, sink>>

\* Python's None (no value); every other value of the model is non-empty
None == <<>>

(***************************************************************************)
(* Bounds of the model.                                                    *)
(***************************************************************************)
MaxDirs == 2        \* session directories on disk
MaxSteps == 3       \* raw steps the loader returns for one trajectory
MaxPaths == 3       \* paths handed to _generate_examples / the driver
MaxWorkers == 2     \* largest worker count W
MaxBuffer == 2      \* largest buffer capacity M

(***************************************************************************)
(* Sequence helpers.                                                       *)
(***************************************************************************)
Range(s) == {s[i] : i \in DOMAIN s}

(***************************************************************************)
(* datetime: <<year, month, day, hour, minute, second>>, ordered as        *)
(* datetime.datetime orders them.                                          *)
(***************************************************************************)
DATA_PATH == <<"home", "panda", "liris_droid", "data", "success">>

INITIAL_DATE == <<2025, 3, 18, 9, 55, 0>>
FINAL_DATE == <<2025, 3, 18, 11, 0, 0>>

RECURSIVE DtCmp(_, _, _)
\* -1, 0, 1: field-by-field comparison from field i on
DtCmp(a, b, i) ==
    IF i > Len(a) THEN 0
    ELSE IF a[i] < b[i] THEN -1
    ELSE IF a[i] > b[i] THEN 1
    ELSE DtCmp(a, b, i + 1)

\* faulty variant: exclusive comparison
DtLe_Strict(a, b) == DtCmp(a, b, 1) < 0

DtGe(a, b) == DtCmp(a, b, 1) >= 0
DtLe(a, b) == DtCmp(a, b, 1) <= 0

(***************************************************************************)
(* strptime(name, "%a_%b_%d_%H:%M:%S_%Y").  A directory name is the        *)
(* sequence of its fields (split at "_" and ":").                          *)
(***************************************************************************)
Weekdays == {"Mon", "Tue", "Wed", "Thu", "Fri", "Sat", "Sun"}
MonthNum == [Jan |-> 1, Feb |-> 2, Mar |-> 3, Apr |-> 4, May |-> 5, Jun |-> 6,
             Jul |-> 7, Aug |-> 8, Sep |-> 9, Oct |-> 10, Nov |-> 11, Dec |-> 12]

IsLeap(y) == (y % 4 = 0 /\ y % 100 # 0) \/ y % 400 = 0
DaysIn(m, y) ==
    IF m = 2 THEN (IF IsLeap(y) THEN 29 ELSE 28)
    ELSE IF m \in {4, 6, 9, 11} THEN 30 ELSE 31

\* faulty variant: the fields are not range-checked
StrptimeOK_Lenient(name) ==
    /\ Len(name) = 7
    /\ name[1] \in Weekdays
    /\ name[2] \in DOMAIN MonthNum

\* strptime returns a datetime (otherwise it raises ValueError)
StrptimeOK(name) ==
    /\ Len(name) = 7
    /\ name[1] \in Weekdays
    /\ name[2] \in DOMAIN MonthNum
    /\ name[7] \in 1..9999
    /\ name[3] \in 1..DaysIn(MonthNum[name[2]], name[7])
    /\ name[4] \in 0..23
    /\ name[5] \in 0..59
    /\ name[6] \in 0..59

Strptime(name) == <<name[7], MonthNum[name[2]], name[3], name[4], name[5], name[6]>>

\* e.split("/")[-1]
TrailingComponent(p) == p[Len(p)]

(***************************************************************************)
(* The session directory names the model records.                          *)
(***************************************************************************)
Mar18(h, m, s) == <<"Tue", "Mar", 18, h, m, s, 2025>>

SessionNames ==
    { Mar18(8, 0, 0), Mar18(9, 55, 0), Mar18(10, 0, 0), Mar18(11, 0, 0),
      Mar18(11, 0, 1),
      <<"Mon", "Mar", 17, 10, 0, 0, 2025>>,
      <<"Wed", "Mar", 19, 8, 0, 0, 2025>>,
      <<"notes">>,
      <<"Tue", "Mar", 18, 25, 0, 0, 2025>> }

(***************************************************************************)
(* _split_paths                                                            *)
(***************************************************************************)
\* crawler(DATA_PATH): the candidate directories
Crawler == sessions

\* faulty variant: only the trajectory file is looked for
HasBoth_H5Only(p) == p \in h5Files

\* os.path.exists(p + '/trajectory.h5') and os.path.exists(p + '/recordings/MP4')
HasBoth(p) == p \in h5Files /\ p \in mp4Dirs

RECURSIVE KeepExisting(_)
\* [p for p in episode_paths if exists(...) and exists(...)]
KeepExisting(ps) ==
    IF ps = <<>> THEN <<>>
    ELSE (IF HasBoth(Head(ps)) THEN <<Head(ps)>> ELSE <<>>) \o KeepExisting(Tail(ps))

ExistingPaths == KeepExisting(Crawler)

\* a bound that is set is truthy; None disables it
Enabled(bound) == bound # None

ParsesAll(ps) == \A i \in DOMAIN ps : StrptimeOK(TrailingComponent(ps[i]))

AfterInitial(e) == DtGe(Strptime(TrailingComponent(e)), initialDate)
BeforeFinal(e) == DtLe(Strptime(TrailingComponent(e)), finalDate)

RECURSIVE KeepAfterInitial(_)
\* [e for e in episode_paths if strptime(...) >= INITIAL_DATE]
KeepAfterInitial(ps) ==
    IF ps = <<>> THEN <<>>
    ELSE (IF AfterInitial(Head(ps)) THEN <<Head(ps)>> ELSE <<>>)
         \o KeepAfterInitial(Tail(ps))

RECURSIVE KeepBeforeFinal(_)
\* [e for e in episode_paths if strptime(...) <= FINAL_DATE]
KeepBeforeFinal(ps) ==
    IF ps = <<>> THEN <<>>
    ELSE (IF BeforeFinal(Head(ps)) THEN <<Head(ps)>> ELSE <<>>)
         \o KeepBeforeFinal(Tail(ps))

\* the list after the INITIAL_DATE filter (when no strptime call raised)
InitialFiltered ==
    IF Enabled(initialDate) THEN KeepAfterInitial(ExistingPaths) ELSE ExistingPaths

FinalFiltered ==
    IF Enabled(finalDate) THEN KeepBeforeFinal(InitialFiltered) ELSE InitialFiltered

\* a strptime call of the INITIAL_DATE comprehension raises ValueError
InitialRaises == Enabled(initialDate) /\ ~ParsesAll(ExistingPaths)

\* a strptime call of the FINAL_DATE comprehension raises ValueError
FinalRaises == ~InitialRaises /\ Enabled(finalDate) /\ ~ParsesAll(InitialFiltered)

SplitRaises == InitialRaises \/ FinalRaises

\* the operator records a session directory under DATA_PATH
RecordSession ==
    /\ splitState = "pending"
    /\ Len(sessions) < MaxDirs
    /\ \E name \in SessionNames, h5 \in BOOLEAN, mp4 \in BOOLEAN :
         LET p == DATA_PATH \o <<name>> IN
         /\ p \notin Range(sessions)
         /\ sessions' = Append(sessions, p)
         /\ h5Files' = IF h5 THEN h5Files \cup {p} ELSE h5Files
         /\ mp4Dirs' = IF mp4 THEN mp4Dirs \cup {p} ELSE mp4Dirs
    /\ UNCHANGED <<initialDate, finalDate, splitState, train>>
    /\ UNCHANGED <<parseVars, driverVars>>

SplitPaths ==
    /\ splitState = "pending"
    /\ IF SplitRaises
       THEN splitState' = "raised" /\ train' = <<>>
       ELSE splitState' = "returned" /\ train' = FinalFiltered
    /\ UNCHANGED <<initialDate, finalDate, sessions, h5Files, mp4Dirs>>
    /\ UNCHANGED <<parseVars, driverVars>>

InitIdleParse ==
    /\ filterNoOps = TRUE
    /\ loaded = <<>>
    /\ paths = <<>>
    /\ genIdx = 0
    /\ yielded = <<>>
    /\ diag = <<>>

InitIdleDriver ==
    /\ nWorkers = 1
    /\ maxInMemory = 1
    /\ pending = <<>>
    /\ worker = <<None>>
    /\ buffer = <<>>
    /\ sink = <<>>

InitIdleSplit ==
    /\ initialDate = INITIAL_DATE
    /\ finalDate = FINAL_DATE
    /\ sessions = <<>>
    /\ h5Files = {}
    /\ mp4Dirs = {}
    /\ splitState = "pending"
    /\ train = <<>>

InitSplit ==
    /\ initialDate \in {None, INITIAL_DATE}
    /\ finalDate \in {None, FINAL_DATE}
    /\ sessions = <<>>
    /\ h5Files = {}
    /\ mp4Dirs = {}
    /\ splitState = "pending"
    /\ train = <<>>
    /\ InitIdleParse
    /\ InitIdleDriver

NextSplit == RecordSession \/ SplitPaths

SpecSplit == InitSplit /\ [][NextSplit]_vars

(***************************************************************************)
(* Raw trajectories: what load_trajectory returns.  A step is a dict       *)
(* (a record: DOMAIN gives its keys); camera_type is kept as the list of   *)
(* its items, in insertion order.                                          *)
(***************************************************************************)
LANGUAGE_INSTRUCTION == "Fold the fabric into a triangle"
IMAGE_RES == <<360, 640>>

\* a decoded frame: its array shape (height, width) and its channel order
Frame == [shape |-> <<720, 1280>>, channels |-> <<"B", "G", "R">>]

Images == [c1_left |-> Frame, c2_left |-> Frame]
CameraTypes == << <<"c1", 0>>, <<"c2", 1>> >>
ExteriorOnly == << <<"c1", 2>>, <<"c2", 1>> >>
RobotState == [cartesian_position |-> <<11, 12, 13, 14, 15, 16>>,
               joint_positions |-> <<21, 22, 23, 24, 25, 26, 27>>,
               gripper_position |-> 31]

Velocities == { <<0, 0, 0, 0, 0, 0>>, <<0, 0, 0, 0, 0, 1>>, <<2, 1, 1, 1, 1, 1>> }
Commands == { [cart |-> <<1, 2, 3, 4, 5, 6>>, grip |-> 7],
              [cart |-> <<7, 6, 5, 4, 3, 2>>, grip |-> 1] }
SomeCommand == [cart |-> <<1, 2, 3, 4, 5, 6>>, grip |-> 7]

Action(vel, cmd) ==
    [cartesian_position |-> cmd.cart, cartesian_velocity |-> vel,
     gripper_position |-> cmd.grip, gripper_velocity |-> 0,
     joint_position |-> <<41, 42, 43, 44, 45, 46, 47>>,
     joint_velocity |-> <<0, 0, 0, 0, 0, 0, 0>>]

FullObservation ==
    [image |-> Images, camera_type |-> CameraTypes, robot_state |-> RobotState]

\* observation dicts with a key too many, and with a key missing
OddObservations ==
    { [image |-> Images, camera_type |-> CameraTypes, robot_state |-> RobotState,
       timestamp |-> 0],
      [image |-> Images, camera_type |-> CameraTypes] }

\* the steps the loader may return: well-formed ones, ones whose observation
\* has other keys, ones that have a further key themselves, one that lacks a
\* key, one without a wrist camera
RawSteps ==
    { [observation |-> FullObservation, action |-> Action(v, c)] :
        v \in Velocities, c \in Commands }
    \cup
    { [observation |-> o, action |-> Action(v, SomeCommand)] :
        o \in OddObservations, v \in Velocities }
    \cup
    { [observation |-> FullObservation, action |-> Action(v, SomeCommand),
       timestamp |-> 0] : v \in {<<0, 0, 0, 0, 0, 0>>, <<2, 1, 1, 1, 1, 1>>} }
    \cup
    { [observation |-> FullObservation],
      [observation |-> [FullObservation EXCEPT !.camera_type = ExteriorOnly],
       action |-> Action(<<2, 1, 1, 1, 1, 1>>, SomeCommand)] }

SeqsUpTo(S, n) == UNION { [1..k -> S] : k \in 0..n }

\* load_trajectory either raises or returns the list of steps
Raised == [raises |-> TRUE, data |-> <<>>]
Returned(d) == [raises |-> FALSE, data |-> d]

Trajectories == {Raised} \cup { Returned(d) : d \in SeqsUpTo(RawSteps, MaxSteps) }

(***************************************************************************)
(* _parse_example                                                          *)
(***************************************************************************)
\* np.array(image.resize(size)): PIL sizes are (width, height)
ResizeAndEncode(image, size) == [image EXCEPT !.shape = <<size[2], size[1]>>]

\* image[..., ::-1]
ReverseChannels(image) ==
    [image EXCEPT !.channels =
        [i \in DOMAIN image.channels |-> image.channels[Len(image.channels) + 1 - i]]]

\* faulty variant: the assertion is not evaluated
AssertKeys_Stripped(data) == TRUE

\* assert all(t.keys() == data[0].keys() for t in data)
AssertKeys(data) == \A t \in DOMAIN data : DOMAIN data[t] = DOMAIN data[1]

HasImages(step) ==
    /\ "observation" \in DOMAIN step
    /\ "image" \in DOMAIN step.observation

\* the resize loop raises KeyError
ResizeRaises(data) ==
    /\ data # <<>>
    /\ \/ ~HasImages(data[1])
       \/ \E t \in DOMAIN data :
            /\ DOMAIN data[1].observation.image # {}
            /\ \/ ~HasImages(data[t])
               \/ ~(DOMAIN data[1].observation.image
                       \subseteq DOMAIN data[t].observation.image)

\* data after the resize loop
Resized(data) ==
    [t \in DOMAIN data |->
        [data[t] EXCEPT !.observation.image =
            [key \in DOMAIN data[t].observation.image |->
                IF key \in DOMAIN data[1].observation.image
                THEN ResizeAndEncode(data[t].observation.image[key],
                                     <<IMAGE_RES[2], IMAGE_RES[1]>>)
                ELSE data[t].observation.image[key]]]]

RECURSIVE AllZero(_)
\* (v == 0).all()
AllZero(v) == v = <<>> \/ (Head(v) = 0 /\ AllZero(Tail(v)))

\* FILTER_NO_OPS and (step['action']['cartesian_velocity'] == 0).all()
NoOpRaises(step) ==
    /\ filterNoOps
    /\ ~("action" \in DOMAIN step /\ "cartesian_velocity" \in DOMAIN step.action)

\* faulty variant: .any() in place of .all()
IsNoOp_AnyZero(step) ==
    /\ filterNoOps
    /\ \E c \in DOMAIN step.action.cartesian_velocity :
          step.action.cartesian_velocity[c] = 0

IsNoOp(step) == filterNoOps /\ AllZero(step.action.cartesian_velocity)

RECURSIVE IdsOfType(_, _)
\* [k for k, v in camera_type_dict.items() if v == 0]   (wrist = TRUE)
\* [k for k, v in camera_type_dict.items() if v != 0]   (wrist = FALSE)
IdsOfType(items, wrist) ==
    IF items = <<>> THEN <<>>
    ELSE (IF (Head(items)[2] = 0) = wrist THEN <<Head(items)[1]>> ELSE <<>>)
         \o IdsOfType(Tail(items), wrist)

ActionKeys == {"cartesian_position", "cartesian_velocity", "gripper_position",
               "gripper_velocity", "joint_position", "joint_velocity"}
StateKeys == {"cartesian_position", "joint_positions", "gripper_position"}

\* building the output step raises KeyError or IndexError
StepRaises(step) ==
    ~ /\ "observation" \in DOMAIN step
      /\ "action" \in DOMAIN step
      /\ "camera_type" \in DOMAIN step.observation
      /\ IdsOfType(step.observation.camera_type, FALSE) # <<>>
      /\ IdsOfType(step.observation.camera_type, TRUE) # <<>>
      /\ "image" \in DOMAIN step.observation
      /\ Head(IdsOfType(step.observation.camera_type, FALSE)) \o "_left"
            \in DOMAIN step.observation.image
      /\ Head(IdsOfType(step.observation.camera_type, TRUE)) \o "_left"
            \in DOMAIN step.observation.image
      /\ "robot_state" \in DOMAIN step.observation
      /\ StateKeys \subseteq DOMAIN step.observation.robot_state
      /\ ActionKeys \subseteq DOMAIN step.action

\* faulty variant: the gripper position is put first
ConcatAction_GripperFirst(action) ==
    <<action.gripper_position>> \o action.cartesian_position

\* np.concatenate((action['cartesian_position'], [action['gripper_position']]))
ConcatAction(action) == action.cartesian_position \o <<action.gripper_position>>

\* the dict appended to episode
OutputStep(step) ==
    LET obs == step.observation
        action == step.action
        wrist_ids == IdsOfType(obs.camera_type, TRUE)
        exterior_ids == IdsOfType(obs.camera_type, FALSE)
    IN [observation |->
            [exterior_image_1_left |->
                ReverseChannels(obs.image[Head(exterior_ids) \o "_left"]),
             wrist_image_left |->
                ReverseChannels(obs.image[Head(wrist_ids) \o "_left"]),
             cartesian_position |-> obs.robot_state.cartesian_position,
             joint_position |-> obs.robot_state.joint_positions,
             gripper_position |-> <<obs.robot_state.gripper_position>>],
        action_dict |->
            [cartesian_position |-> action.cartesian_position,
             cartesian_velocity |-> action.cartesian_velocity,
             gripper_position |-> <<action.gripper_position>>,
             gripper_velocity |-> <<action.gripper_velocity>>,
             joint_position |-> action.joint_position,
             joint_velocity |-> action.joint_velocity],
        action |-> ConcatAction(action),
        discount |-> 1,
        reward |-> 0,
        is_first |-> FALSE,
        is_last |-> FALSE,
        is_terminal |-> FALSE,
        language_instruction |-> LANGUAGE_INSTRUCTION]

RECURSIVE Assemble(_)
\* the loop "for step in data": the episode list, or raised
Assemble(data) ==
    IF data = <<>> THEN [raised |-> FALSE, episode |-> <<>>]
    ELSE LET step == Head(data)
             rest == Assemble(Tail(data))
         IN IF NoOpRaises(step) THEN [raised |-> TRUE, episode |-> <<>>]
            ELSE IF IsNoOp(step) THEN rest
            ELSE IF StepRaises(step) \/ rest.raised
                 THEN [raised |-> TRUE, episode |-> <<>>]
            ELSE [raised |-> FALSE, episode |-> <<OutputStep(step)>> \o rest.episode]

\* faulty variant: the terminal marks are put on episode[0]
MarkBoundaries_OnFirst(episode) ==
    [episode EXCEPT ![1].is_first = TRUE, ![1].is_last = TRUE,
                    ![1].is_terminal = TRUE, ![1].reward = 1]

\* episode[0]["is_first"] = True; episode[-1][...] = ...   (episode non-empty)
MarkBoundaries(episode) ==
    LET n == Len(episode)
        first == [episode EXCEPT ![1].is_first = TRUE]
    IN [first EXCEPT ![n].is_last = TRUE, ![n].is_terminal = TRUE, ![n].reward = 1]

LoadSkip(p) == [msg |-> "data couldn't be loaded", path |-> p]
ProcessingSkip(p) == [msg |-> "error in data processing", path |-> p]

\* faulty variant: an empty episode list is not an error
ProcessingRaises_EmptyAllowed(data) ==
    \/ ~AssertKeys(data)
    \/ ResizeRaises(data)
    \/ Assemble(Resized(data)).raised

\* the second try block raises
ProcessingRaises(data) ==
    \/ ~AssertKeys(data)
    \/ ResizeRaises(data)
    \/ Assemble(Resized(data)).raised
    \/ Assemble(Resized(data)).episode = <<>>

Sample(p, data) ==
    [steps |-> MarkBoundaries(Assemble(Resized(data)).episode),
     episode_metadata |->
        [file_path |-> p \o <<"trajectory.h5">>,
         recording_folderpath |-> p \o <<"recordings", "MP4">>]]

\* _parse_example(episode_path) when load_trajectory does `outcome`:
\* the value returned and the diagnostics printed
ParseExample(p, outcome) ==
    IF outcome.raises THEN [value |-> None, printed |-> <<LoadSkip(p)>>]
    ELSE IF ProcessingRaises(outcome.data)
         THEN [value |-> None, printed |-> <<ProcessingSkip(p)>>]
    ELSE [value |-> <<p, Sample(p, outcome.data)>>, printed |-> <<>>]

(***************************************************************************)
(* _generate_examples                                                      *)
(***************************************************************************)
EpisodePath(i) == DATA_PATH \o <<Mar18(10, i, 0)>>

\* faulty variant: the generator ends at the first path that is skipped
GenerateStep_StopsAtSkip(outcome) ==
    LET p == paths[genIdx + 1]
        r == ParseExample(p, outcome)
    IN /\ genIdx' = IF r.value = None THEN Len(paths) ELSE genIdx + 1
       /\ loaded' = Append(loaded, outcome)
       /\ yielded' = Append(yielded, r.value)
       /\ diag' = diag \o r.printed
       /\ UNCHANGED <<filterNoOps, paths>>

\* one iteration of "for sample in paths: yield _parse_example(sample)"
GenerateStep(outcome) ==
    LET p == paths[genIdx + 1]
        r == ParseExample(p, outcome)
    IN /\ genIdx' = genIdx + 1
       /\ loaded' = Append(loaded, outcome)
       /\ yielded' = Append(yielded, r.value)
       /\ diag' = diag \o r.printed
       /\ UNCHANGED <<filterNoOps, paths>>

\* the generator over a single path, for every trajectory of the model
GenerateOne ==
    /\ genIdx < Len(paths)
    /\ \E outcome \in Trajectories : GenerateStep(outcome)
    /\ UNCHANGED <<splitVars, driverVars>>

InitParse ==
    /\ filterNoOps \in BOOLEAN
    /\ paths = <<EpisodePath(1)>>
    /\ loaded = <<>>
    /\ genIdx = 0
    /\ yielded = <<>>
    /\ diag = <<>>
    /\ InitIdleSplit
    /\ InitIdleDriver

NextParse == GenerateOne

SpecParse == InitParse /\ [][NextParse]_vars

\* a few whole trajectories, for runs over several paths
MovingStep == [observation |-> FullObservation,
               action |-> Action(<<0, 0, 0, 0, 0, 1>>, SomeCommand)]
IdleStep == [observation |-> FullObservation,
             action |-> Action(<<0, 0, 0, 0, 0, 0>>, SomeCommand)]

SampleTrajectories ==
    { Raised,
      Returned(<<>>),
      Returned(<<IdleStep>>),
      Returned(<<MovingStep>>),
      Returned(<<IdleStep, MovingStep, MovingStep>>),
      Returned(<<MovingStep, [observation |-> FullObservation]>>) }

PathList(n) == [i \in 1..n |-> EpisodePath(i)]

\* the generator over a list of paths
GenerateNext ==
    /\ genIdx < Len(paths)
    /\ \E outcome \in SampleTrajectories : GenerateStep(outcome)
    /\ UNCHANGED <<splitVars, driverVars>>

InitGenerate ==
    /\ filterNoOps \in BOOLEAN
    /\ \E n \in 1..MaxPaths : paths = PathList(n)
    /\ loaded = <<>>
    /\ genIdx = 0
    /\ yielded = <<>>
    /\ diag = <<>>
    /\ InitIdleSplit
    /\ InitIdleDriver

NextGenerate == GenerateNext

SpecGenerate == InitGenerate /\ [][NextGenerate]_vars

(***************************************************************************)
(* Parallel conversion driver: W workers run PARSE_FCN on the paths they   *)
(* take, completed results wait in a buffer of capacity M, a flush hands   *)
(* the non-None results to the dataset sink.                               *)
(***************************************************************************)
\* faulty variant: the loop starts at the second path
GenerateExamples_SkipsFirst(ps, outcomes) ==
    [i \in 1..(Len(ps) - 1) |-> ParseExample(ps[i + 1], outcomes[i + 1])]

\* _generate_examples(paths) run to its end: what each iteration returned
\* and printed
GenerateExamples(ps, outcomes) ==
    [i \in DOMAIN ps |-> ParseExample(ps[i], outcomes[i])]

RECURSIVE Values(_)
Values(rs) == IF rs = <<>> THEN <<>> ELSE <<Head(rs).value>> \o Values(Tail(rs))

RECURSIVE Printed(_)
Printed(rs) == IF rs = <<>> THEN <<>> ELSE Head(rs).printed \o Printed(Tail(rs))

DriverTrajectories == { Raised, Returned(<<IdleStep>>), Returned(<<MovingStep>>) }

Idle == 0
Workers == 1..nWorkers

\* an idle worker takes the next path
TakePath(w) ==
    /\ worker[w] = Idle
    /\ pending # <<>>
    /\ worker' = [worker EXCEPT ![w] = Head(pending)]
    /\ pending' = Tail(pending)
    /\ UNCHANGED <<nWorkers, maxInMemory, buffer, sink>>
    /\ UNCHANGED <<splitVars, parseVars>>

\* a worker finishes its path; its result enters the buffer, which must have room
Complete(w) ==
    /\ worker[w] # Idle
    /\ Len(buffer) < maxInMemory
    /\ LET i == worker[w]
           rs == GenerateExamples(<<paths[i]>>, <<loaded[i]>>)
       IN /\ buffer' = buffer \o Values(rs)
          /\ diag' = diag \o Printed(rs)
    /\ worker' = [worker EXCEPT ![w] = Idle]
    /\ UNCHANGED <<nWorkers, maxInMemory, pending, sink>>
    /\ UNCHANGED <<filterNoOps, loaded, paths, genIdx, yielded>>
    /\ UNCHANGED splitVars

\* the buffered results that are not None go to the sink; the buffer is emptied
Flush ==
    /\ buffer # <<>>
    /\ sink' = sink \o SelectSeq(buffer, LAMBDA r : r # None)
    /\ buffer' = <<>>
    /\ UNCHANGED <<nWorkers, maxInMemory, pending, worker>>
    /\ UNCHANGED <<splitVars, parseVars>>

InitDriver ==
    /\ filterNoOps = TRUE
    /\ paths = PathList(MaxPaths)
    /\ loaded \in [1..MaxPaths -> DriverTrajectories]
    /\ genIdx = 0
    /\ yielded = <<>>
    /\ diag = <<>>
    /\ nWorkers \in 1..MaxWorkers
    /\ maxInMemory \in 1..MaxBuffer
    /\ pending = [i \in 1..MaxPaths |-> i]
    /\ worker = [w \in 1..nWorkers |-> Idle]
    /\ buffer = <<>>
    /\ sink = <<>>
    /\ InitIdleSplit

NextDriver ==
    \/ \E w \in Workers : TakePath(w)
    \/ \E w \in Workers : Complete(w)
    \/ Flush

SpecDriver == InitDriver /\ [][NextDriver]_vars


(***************************************************************************)
(* Properties of the assembler (specification SpecParse).                  *)
(***************************************************************************)
\* the paths whose call of _parse_example returned a sample
Emitted == {i \in DOMAIN yielded : yielded[i] # None}
StepsOf(i) == yielded[i][2].steps

\* C1: in every emitted episode exactly one step is marked is_first and it is
\* the first one; exactly one step is marked is_last, the same and only step
\* is marked is_terminal and has reward 1, and it is the last one; every
\* other step has reward 0.
C1_BoundaryFlags ==
    \A i \in Emitted :
        LET steps == StepsOf(i)
            n == Len(steps)
        IN /\ n >= 1
           /\ \A k \in 1..n :
                /\ steps[k].is_first = (k = 1)
                /\ steps[k].is_last = (k = n)
                /\ steps[k].is_terminal = (k = n)
                /\ steps[k].reward = (IF k = n THEN 1 ELSE 0)

C1_Witness ==
    \E i \in Emitted :
        /\ Len(StepsOf(i)) = 3
        /\ StepsOf(i)[1].is_first
        /\ StepsOf(i)[3].is_last
        /\ StepsOf(i)[2].reward = 0

\* a velocity with some non-zero component
Moves(step) ==
    /\ "action" \in DOMAIN step
    /\ \E c \in DOMAIN step.action.cartesian_velocity :
          step.action.cartesian_velocity[c] # 0

\* the raw steps that no-op filtering retains
Retained(data) == SelectSeq(data, LAMBDA step : ~filterNoOps \/ Moves(step))

\* C2: when the loader returns a trajectory of which no step is retained
\* (no step at all, or every step filtered as a no-op), _parse_example
\* returns None and prints the 'error in data processing' diagnostic; an
\* episode with no steps is never emitted.
C2_EmptyEpisodeSkipped ==
    /\ \A i \in Emitted : StepsOf(i) # <<>>
    /\ \A i \in DOMAIN yielded :
        (~loaded[i].raises /\ Retained(loaded[i].data) = <<>>)
            => /\ yielded[i] = None
               /\ diag = <<ProcessingSkip(paths[i])>>

C2_Witness ==
    \E i \in DOMAIN yielded :
        /\ ~loaded[i].raises
        /\ Len(loaded[i].data) = 2
        /\ AssertKeys(loaded[i].data)
        /\ \A t \in DOMAIN loaded[i].data : ~StepRaises(loaded[i].data[t])
        /\ filterNoOps
        /\ Retained(loaded[i].data) = <<>>
        /\ yielded[i] = None

\* what an output step shows of the raw step it was built from
Shown(out) == <<out.action_dict.cartesian_velocity,
                out.action_dict.cartesian_position,
                out.action_dict.gripper_position[1]>>
Given(step) == <<step.action.cartesian_velocity,
                 step.action.cartesian_position,
                 step.action.gripper_position>>

\* C4: the steps of an emitted episode are, in order, the raw steps whose
\* commanded cartesian velocity is not all zero when FILTER_NO_OPS is set,
\* and all the raw steps when it is not.
C4_NoOpFiltering ==
    \A i \in Emitted :
        LET kept == Retained(loaded[i].data)
        IN /\ Len(StepsOf(i)) = Len(kept)
           /\ \A k \in DOMAIN kept : Shown(StepsOf(i)[k]) = Given(kept[k])

C4_Witness ==
    \E i \in Emitted :
        /\ filterNoOps
        /\ Len(loaded[i].data) = 3
        /\ ~Moves(loaded[i].data[2])
        /\ Len(StepsOf(i)) = 2
        /\ Given(loaded[i].data[1]) # Given(loaded[i].data[3])

\* C4 (filter disabled): all-zero-velocity steps are kept
C4_WitnessDisabled ==
    \E i \in Emitted :
        /\ ~filterNoOps
        /\ Len(loaded[i].data) = 3
        /\ ~Moves(loaded[i].data[2])
        /\ Len(StepsOf(i)) = 3

\* some step's observation keys differ from the first step's
ObservationKeysDiffer(data) ==
    \E t \in DOMAIN data : DOMAIN data[t].observation # DOMAIN data[1].observation

\* some step's own keys differ from the first step's
StepKeysDiffer(data) ==
    \E t \in DOMAIN data : DOMAIN data[t] # DOMAIN data[1]

\* C6 as stated: a trajectory in which some step's set of observation keys
\* differs from the first step's is skipped (None is returned).
C6_ObservationKeysChecked ==
    \A i \in DOMAIN yielded :
        (~loaded[i].raises /\ ObservationKeysDiffer(loaded[i].data))
            => yielded[i] = None

\* C6 as amended: a trajectory in which some step's set of top-level keys
\* differs from the first step's is skipped through the 'error in data
\* processing' path: None is returned and that diagnostic is printed.
C6_StepKeysChecked ==
    \A i \in DOMAIN yielded :
        (~loaded[i].raises /\ StepKeysDiffer(loaded[i].data))
            => /\ yielded[i] = None
               /\ diag = <<ProcessingSkip(paths[i])>>

C6_Witness ==
    \E i \in DOMAIN yielded :
        /\ ~loaded[i].raises
        /\ Len(loaded[i].data) = 2
        /\ StepKeysDiffer(loaded[i].data)
        /\ ~ObservationKeysDiffer(loaded[i].data)
        /\ \A t \in DOMAIN loaded[i].data :
              Moves(loaded[i].data[t]) /\ ~StepRaises(loaded[i].data[t])
        /\ yielded[i] = None

MalformedNames == { <<"notes">>, <<"Tue", "Mar", 18, 25, 0, 0, 2025>> }

Malformed(p) == TrailingComponent(p) \in MalformedNames
InTrain(p) == \E i \in DOMAIN train : train[i] = p

\* C5 as stated: whatever the date bounds (both set, one set, none set), a
\* session directory whose name does not parse is never in the returned
\* 'train' list.
C5_MalformedNeverReturned ==
    \A i \in DOMAIN train : ~Malformed(train[i])

\* C5 as amended: when at least one date bound is set, a session directory
\* whose name does not parse is never in the returned 'train' list, and if
\* such a directory holds both trajectory.h5 and recordings/MP4 the call
\* raises instead of returning.
C5_MalformedFatalWhenBounded ==
    (Enabled(initialDate) \/ Enabled(finalDate)) =>
        /\ \A i \in DOMAIN train : ~Malformed(train[i])
        /\ (\E p \in Range(sessions) :
                Malformed(p) /\ p \in h5Files /\ p \in mp4Dirs)
            => splitState # "returned"

C5_Witness ==
    /\ splitState = "raised"
    /\ ~Enabled(initialDate)
    /\ Enabled(finalDate)
    /\ \E p \in Range(sessions) : Malformed(p) /\ p \in h5Files /\ p \in mp4Dirs
    /\ \E p \in Range(sessions) : ~Malformed(p) /\ p \in h5Files /\ p \in mp4Dirs

\* seconds since 2025-03-01T00:00:00 of a March 2025 session name / datetime
NameSeconds(name) == ((name[3] * 24 + name[4]) * 60 + name[5]) * 60 + name[6]
DateSeconds(d) == ((d[3] * 24 + d[4]) * 60 + d[5]) * 60 + d[6]

NamedFor(p, h, m, s) == TrailingComponent(p) = <<"Tue", "Mar", 18, h, m, s, 2025>>
Candidate(p) == p \in Range(sessions) /\ p \in h5Files /\ p \in mp4Dirs

\* C8: a candidate path is in the returned list if and only if its timestamp t
\* satisfies (INITIAL_DATE unset or t >= INITIAL_DATE) and (FINAL_DATE unset
\* or t <= FINAL_DATE); with the bounds 09:55:00 and 11:00:00 of 2025-03-18,
\* the sessions of 10:00:00, 11:00:00 and 09:55:00 are in, that of 08:00:00
\* is out.
C8_InclusiveDateRange ==
    splitState = "returned" =>
        /\ \A p \in Range(sessions) :
             Candidate(p) =>
                (InTrain(p) <=>
                    /\ ~Enabled(initialDate)
                         \/ NameSeconds(TrailingComponent(p)) >= DateSeconds(initialDate)
                    /\ ~Enabled(finalDate)
                         \/ NameSeconds(TrailingComponent(p)) <= DateSeconds(finalDate))
        /\ (/\ Enabled(initialDate) /\ initialDate = <<2025, 3, 18, 9, 55, 0>>
            /\ Enabled(finalDate) /\ finalDate = <<2025, 3, 18, 11, 0, 0>>)
            => \A p \in Range(sessions) :
                 Candidate(p) =>
                    /\ NamedFor(p, 10, 0, 0) => InTrain(p)
                    /\ NamedFor(p, 11, 0, 0) => InTrain(p)
                    /\ NamedFor(p, 9, 55, 0) => InTrain(p)
                    /\ NamedFor(p, 8, 0, 0) => ~InTrain(p)

C8_Witness ==
    /\ splitState = "returned"
    /\ Enabled(initialDate)
    /\ Enabled(finalDate)
    /\ \E p, q \in Range(sessions) :
         /\ Candidate(p) /\ NamedFor(p, 11, 0, 0) /\ InTrain(p)
         /\ Candidate(q) /\ NamedFor(q, 8, 0, 0) /\ ~InTrain(q)

\* C9: every returned path holds both trajectory.h5 and recordings/MP4; a
\* directory that lacks either is never returned.
C9_BothFilesRequired ==
    /\ \A i \in DOMAIN train : train[i] \in h5Files /\ train[i] \in mp4Dirs
    /\ \A p \in Range(sessions) :
         (p \notin mp4Dirs \/ p \notin h5Files) => ~InTrain(p)

C9_Witness ==
    /\ splitState = "returned"
    /\ train # <<>>
    /\ \E p \in Range(sessions) :
         /\ p \in h5Files
         /\ p \notin mp4Dirs
         /\ NamedFor(p, 10, 0, 0)
         /\ ~InTrain(p)

(***************************************************************************)
(* Properties of the generator (specification SpecGenerate).               *)
(***************************************************************************)
WellFormed(step) ==
    /\ DOMAIN step = {"observation", "action"}
    /\ DOMAIN step.observation = {"image", "camera_type", "robot_state"}

\* a trajectory from which an episode can be assembled
Assemblable(outcome) ==
    /\ ~outcome.raises
    /\ \A t \in DOMAIN outcome.data : WellFormed(outcome.data[t])
    /\ Retained(outcome.data) # <<>>

GeneratorDone == genIdx = Len(paths)

\* the loader raised for path f alone and every other path is assemblable
OnlyFailure(f) ==
    /\ f \in DOMAIN loaded
    /\ loaded[f].raises
    /\ \A j \in DOMAIN loaded : j # f => Assemblable(loaded[j])

\* C3: when the loader raises for exactly one of the N paths and the others
\* are assemblable, the generator yields one value per path: the (path,
\* sample) pair of each other path, None for the failing one, and the only
\* diagnostic printed is the "data couldn't be loaded" one of that path.
C3_FailureIsolation ==
    GeneratorDone =>
        /\ Len(yielded) = Len(paths)
        /\ \A f \in DOMAIN yielded :
             OnlyFailure(f) =>
                /\ yielded[f] = None
                /\ diag = <<LoadSkip(paths[f])>>
                /\ \A j \in DOMAIN yielded :
                     j # f => /\ yielded[j] # None
                              /\ yielded[j][1] = paths[j]
                              /\ yielded[j] = ParseExample(paths[j], loaded[j]).value

C3_Witness ==
    /\ GeneratorDone
    /\ Len(paths) = 3
    /\ OnlyFailure(2)
    /\ yielded[1] # None
    /\ yielded[3] # None

(***************************************************************************)
(* Properties of the driver (specification SpecDriver).                    *)
(***************************************************************************)
DriverDone ==
    /\ pending = <<>>
    /\ \A w \in Workers : worker[w] = Idle
    /\ buffer = <<>>

\* the assembler's result for the i-th path
ResultOf(i) == ParseExample(paths[i], loaded[i]).value

\* C7: the buffer never holds more than M results; None is never delivered;
\* no record is delivered twice and every delivered record is the result of a
\* path; when the run is over the delivered records are exactly the non-None
\* results of the paths, whatever W and M.
C7_ExactlyOnceDelivery ==
    /\ Len(buffer) <= maxInMemory
    /\ \A k \in DOMAIN sink : sink[k] # None
    /\ \A k, l \in DOMAIN sink : k # l => sink[k] # sink[l]
    /\ \A k \in DOMAIN sink : \E i \in DOMAIN paths : sink[k] = ResultOf(i)
    /\ DriverDone =>
         Range(sink) = {ResultOf(i) : i \in DOMAIN paths} \ {None}

C7_Witness ==
    /\ DriverDone
    /\ nWorkers = 2
    /\ maxInMemory = 1
    /\ Len(sink) = 2
    /\ \E i \in DOMAIN paths : loaded[i].raises

====
